---- MODULE Spec2Model ----
(***************************************************************************)
(* The entropy queue (a directory of hotbits_*.json files written by       *)
(* HotBitStorage.save_to_file) and the consumption engine QuantumRandom    *)
(* (quantum_random.py), which decodes whole files into the bit string      *)
(* current_bits and serves getrandbits, randrange, randint, choice,        *)
(* choices, shuffle, sample and random from it.                            *)
(*                                                                         *)
(* Bit strings are sequences over {0, 1}, most significant bit first.      *)
(* Python lists are 0-based: the Python index i is the TLA+ index i + 1.   *)
(***************************************************************************)
EXTENDS Integers, Sequences, FiniteSets, TLC

\* format(integer, '024b'): the width of one stored integer.
ChunkSize == 24

\* random(): the number of bits drawn, getrandbits(53).
RandomBits == 53

\* Bounds of the model.
MaxSaves == 2
MaxTime == 1

VARIABLES
    storage,        \* the directory: file name -> [id, ints] (integerList)
    now,            \* the wall clock in seconds (time.strftime)
    saved,          \* number of save_to_file calls so far (also the set id)
    current_bits,   \* QuantumRandom.current_bits
    pc,             \* "new" (no engine yet), "idle", "draw" (in getrandbits)
    call,           \* the frame of the API call in progress
    k,              \* the argument of the getrandbits call in progress
    last,           \* outcome of the call that finished last
    loaded,         \* history: ids of the sets decoded, in order
    decoded,        \* history: every bit ever appended to current_bits
    delivered,      \* history: every bit ever returned by getrandbits
    pixel_bits,     \* PixelProcessor.bits, the producer's raw bit buffer
    last_frame,     \* PixelProcessor.last_frame: "None" or "frame"
    cut,            \* hotbits in main: the list get_hotbits returned last
    raw,            \* history: PixelProcessor.bits as get_hotbits found it
    ppc,            \* where the producer's main loop stands
    max_sets,       \* args.max_sets, the producer's capacity
    filename,       \* save_to_file: <<the name it has open>>, or <<>>
    engines         \* engines on one directory, load_next_file step by step

\* The producer process (capture_hotbits.main) and the pair of engines.
producerVars == <<pixel_bits, last_frame, cut, raw, ppc, max_sets, filename>>

vars == <<storage, now, saved, current_bits, pc, call, k, last,
          loaded, decoded, delivered, producerVars, engines>>

----------------------------------------------------------------------------
(* Integer helpers *)

RECURSIVE Pow2(_)
Pow2(n) == IF n <= 0 THEN 1 ELSE 2 * Pow2(n - 1)

Abs(n) == IF n < 0 THEN -n ELSE n

\* int.bit_length(): the number of binary digits of |n|, 0 for 0.
RECURSIVE BitLengthNat(_)
BitLengthNat(n) == IF n = 0 THEN 0 ELSE 1 + BitLengthNat(n \div 2)

BitLength(n) == BitLengthNat(Abs(n))

\* Python's floor division a // b for b # 0.
FloorDiv(a, b) == IF b > 0 THEN a \div b ELSE (-a) \div (-b)

\* bin(n) without the prefix, for n >= 0 ("" for 0 before padding).
RECURSIVE Binary(_)
Binary(n) == IF n = 0 THEN <<>> ELSE Binary(n \div 2) \o <<n % 2>>

RECURSIVE Zeros(_)
Zeros(n) == IF n <= 0 THEN <<>> ELSE <<0>> \o Zeros(n - 1)

\* format(integer, '024b'): zero-padded to at least 24 digits.
Format024b(integer) ==
    Zeros(ChunkSize - Len(Binary(integer))) \o Binary(integer)

\* int(bits, 2) for a non-empty bit string.
RECURSIVE BitsToInt(_)
BitsToInt(bits) ==
    IF bits = <<>> THEN 0
    ELSE 2 * BitsToInt(SubSeq(bits, 1, Len(bits) - 1)) + bits[Len(bits)]

\* for integer in integers: current_bits += format(integer, '024b')
RECURSIVE Decode(_)
Decode(integers) ==
    IF integers = <<>> THEN <<>>
    ELSE IF Len(integers) = 1 THEN Format024b(integers[1])
    ELSE LET half == Len(integers) \div 2
         IN  Decode(SubSeq(integers, 1, half))
                \o Decode(SubSeq(integers, half + 1, Len(integers)))

\* s[:n] and s[n:]
Take(s, n) == SubSeq(s, 1, n)
Drop(s, n) == SubSeq(s, n + 1, Len(s))

RangeOf(s) == {s[i] : i \in DOMAIN s}

\* s without its leading zeros: the binary numeral of an unbounded integer.
\* int(bits, 2) of a string too long for a machine integer is kept this way.
RECURSIVE Numeral(_)
Numeral(bits) ==
    IF bits = <<>> THEN <<>>
    ELSE IF Head(bits) = 0 THEN Numeral(Tail(bits)) ELSE bits

\* x < y for two numerals of equal length, digit by digit.
RECURSIVE LexLess(_, _)
LexLess(x, y) ==
    IF x = <<>> THEN FALSE
    ELSE IF Head(x) # Head(y) THEN Head(x) < Head(y)
    ELSE LexLess(Tail(x), Tail(y))

\* x < y for two numerals.
NumeralLess(x, y) ==
    \/ Len(x) < Len(y)
    \/ Len(x) = Len(y) /\ LexLess(x, y)

\* 9007199254740992, the divisor of random(), as a numeral.
TwoTo53 == <<1>> \o Zeros(53)

\* sorted(s) for a list of integers.
RECURSIVE Insert(_, _)
Insert(x, s) ==
    IF s = <<>> THEN <<x>>
    ELSE IF x <= Head(s) THEN <<x>> \o s
    ELSE <<Head(s)>> \o Insert(x, Tail(s))

RECURSIVE Sorted(_)
Sorted(s) == IF s = <<>> THEN <<>> ELSE Insert(Head(s), Sorted(Tail(s)))

\* range(n) as a list
RangeList(n) == [i \in 1..n |-> i - 1]

----------------------------------------------------------------------------
(* Input domains *)

\* Integer lists the producer saves: [5, 10] is the documented scenario,
\* 13804995 is 0xD2A5C3, 1101 0010 1010 0101 1100 0011.
IntegerLists ==
    { <<5, 10>>, <<13804995>> }

\* Arguments of getrandbits.
BitCounts == {0, 1, ChunkSize}

\* Arguments (a, b) of randint.
RandintArgs ==
    { <<0, 0>>, <<2, 2>>, <<0, 7>>, <<1, 0>> }

\* Arguments (start, stop, step) of randrange.
RandrangeArgs ==
    { <<1, 100, 5>>, <<5, 6, 1>>, <<10, 0, -3>> }

\* Arguments n of the one-argument form randrange(n) (stop is None).
RandrangeStops == {3}

\* Lists handed to shuffle and sample.
Lists == { <<>>, <<7, 8, 9>> }

\* Argument k of sample.
Counts == {2}

----------------------------------------------------------------------------
(* The frame of an API call and the record of a finished one *)

NoCall ==
    [ name  |-> "none",
      a     |-> 0, b |-> 0,             \* randint(a, b)
      start |-> 0, stop |-> 0, step |-> 0,   \* randrange
      size  |-> 0,                      \* range_size
      seq   |-> <<>>,                   \* the list choice indexes / shuffle swaps
      input |-> <<>>,                   \* the list the caller passed
      n     |-> 0,                      \* k of choices and sample
      acc   |-> <<>>,                   \* the list choices has built so far
      i     |-> 0,                      \* i of shuffle
      kreq  |-> 0,                      \* k of a direct getrandbits call
      draw  |-> 0,                      \* rand_num, the last value drawn
      rejected |-> FALSE,               \* the current loop rejected a draw
      loaded |-> FALSE,                 \* this call loaded a file
      swaps |-> <<>> ]                  \* the (i, j) pairs shuffle swapped

NoLast == [call |-> NoCall, err |-> "none", result |-> <<>>]

Frame(name) == [NoCall EXCEPT !.name = name]

\* The call returns `result`.
Return(c, result) ==
    /\ pc' = "idle"
    /\ call' = NoCall
    /\ k' = 0
    /\ last' = [call |-> c, err |-> "none", result |-> result]

\* The call raises `err`, which propagates to the caller of the API.
Raise(c, err) ==
    /\ pc' = "idle"
    /\ call' = NoCall
    /\ k' = 0
    /\ last' = [call |-> c, err |-> err, result |-> <<>>]

\* The call goes on to self.getrandbits(width).
Draw(c, width) ==
    /\ pc' = "draw"
    /\ call' = c
    /\ k' = width
    /\ last' = NoLast

----------------------------------------------------------------------------
(* The directory and the producer's save_to_file *)

\* os.listdir(...) filtered on '.json'
Files == DOMAIN storage

\* f"hotbits_{timestamp}.json": the name is the time in whole seconds.
FileName(t) == t

\* open(filename, 'w') + json.dump: creates the file or replaces its contents.
Write(dir, name, contents) ==
    [f \in DOMAIN dir \cup {name} |-> IF f = name THEN contents ELSE dir[f]]

RemoveNothing(dir, name) == dir

\* os.remove(self.current_file)
Remove(dir, name) == [f \in DOMAIN dir \ {name} |-> dir[f]]

\* HotBitStorage.count_sets
CountSets == Cardinality(Files)

Init ==
    /\ storage = <<>>
    /\ now = 0
    /\ saved = 0
    /\ current_bits = <<>>
    /\ pc = "new"
    /\ call = NoCall
    /\ k = 0
    /\ last = NoLast
    /\ loaded = <<>>
    /\ decoded = <<>>
    /\ delivered = <<>>
    /\ pixel_bits = <<>>
    /\ last_frame = "None"
    /\ cut = <<>>
    /\ raw = <<>>
    /\ ppc = "off"
    /\ max_sets = 0
    /\ filename = <<>>
    /\ engines = <<>>

\* One second passes on the wall clock.
Tick ==
    /\ now < MaxTime
    /\ now' = now + 1
    /\ UNCHANGED <<storage, saved, current_bits, pc, call, k, last,
                   loaded, decoded, delivered, producerVars, engines>>

\* HotBitStorage.save_to_file(hotbits)
SaveToFile(hotbits) ==
    /\ saved < MaxSaves
    /\ saved' = saved + 1
    /\ storage' = Write(storage, FileName(now),
                        [id |-> saved + 1, ints |-> hotbits, form |-> "ok"])
    /\ UNCHANGED <<now, current_bits, pc, call, k, last, loaded,
                   decoded, delivered, producerVars, engines>>

----------------------------------------------------------------------------
(* QuantumRandom: construction and load_next_file *)

\* The body of load_next_file once python_random.choice picked `name`:
\* decode the whole file onto the tail of current_bits, then delete it.
LoadFile(name) ==
    /\ current_bits' = current_bits \o Decode(storage[name].ints)
    /\ storage' = Remove(storage, name)
    /\ loaded' = Append(loaded, storage[name].id)
    /\ decoded' = decoded \o Decode(storage[name].ints)

\* QuantumRandom(): current_bits = "" and the first load_next_file.
\* With no file the constructor raises and no engine exists.
Construct ==
    /\ pc = "new"
    /\ IF Files = {}
       THEN /\ last' = [call |-> Frame("__init__"), err |-> "PoolExhausted",
                        result |-> <<>>]
            /\ UNCHANGED <<storage, current_bits, pc, call, k,
                           loaded, decoded>>
       ELSE /\ \E name \in Files : LoadFile(name)
            /\ Return([Frame("__init__") EXCEPT !.loaded = TRUE], <<>>)
    /\ UNCHANGED <<now, saved, delivered, producerVars, engines>>

\* getrandbits: `while len(self.current_bits) < k: self.load_next_file()`,
\* one iteration that finds a file.
GetrandbitsLoad ==
    /\ pc = "draw"
    /\ Len(current_bits) < k
    /\ Files # {}
    /\ \E name \in Files : LoadFile(name)
    /\ call' = [call EXCEPT !.loaded = TRUE]
    /\ UNCHANGED <<now, saved, pc, k, last, delivered, producerVars,
                   engines>>

\* load_next_file raising after it emptied current_bits.
GetrandbitsExhaustedClears ==
    /\ pc = "draw"
    /\ Len(current_bits) < k
    /\ Files = {}
    /\ Raise(call, "PoolExhausted")
    /\ current_bits' = <<>>
    /\ UNCHANGED <<storage, now, saved, loaded, decoded, delivered,
                   producerVars, engines>>

\* The same iteration with no file left: load_next_file raises ValueError
\* ("No HotBits available"), which nothing on the call path catches.
GetrandbitsExhausted ==
    /\ pc = "draw"
    /\ Len(current_bits) < k
    /\ Files = {}
    /\ Raise(call, "PoolExhausted")
    /\ UNCHANGED <<storage, now, saved, current_bits, loaded,
                   decoded, delivered, producerVars, engines>>

----------------------------------------------------------------------------
(* The arithmetic of the rejection loops *)

\* randint: range_size = b - a + 1
RandintSize(a, b) == b - a + 1

\* randint: 2 ** (range_size.bit_length() - 1) is the float 0.5 when
\* range_size is 0, and a float has no bit_length: AttributeError.
RandintRaises(a, b) == BitLength(RandintSize(a, b)) = 0

\* randint: max_power_of_two.bit_length()
RandintWidth(a, b) == BitLength(Pow2(BitLength(RandintSize(a, b)) - 1))

RandintAcceptNoUpper(a, b, rand_num) == a <= rand_num

\* randint: a <= rand_num <= b
RandintAccept(a, b, rand_num) == a <= rand_num /\ rand_num <= b

\* randrange: range_size = (stop - start) // step
RandrangeSize(start, stop, step) == FloorDiv(stop - start, step)

\* randrange: (range_size - 1).bit_length()
RandrangeWidth(range_size) == BitLength(range_size - 1)

RandrangeAcceptInclusive(rand_num, range_size) == rand_num <= range_size

\* randrange: rand_num < range_size
RandrangeAccept(rand_num, range_size) == rand_num < range_size

\* randrange: start + rand_num * step
RandrangeResult(start, rand_num, step) == start + rand_num * step

SwapOverwrites(seq, i, j) == [seq EXCEPT ![i + 1] = seq[j + 1]]

\* shuffle: seq[i], seq[j] = seq[j], seq[i] (i, j are Python indices)
Swap(seq, i, j) ==
    [x \in DOMAIN seq |->
        IF x = i + 1 THEN seq[j + 1]
        ELSE IF x = j + 1 THEN seq[i + 1] ELSE seq[x]]

\* sample: [seq[i] for i in sorted(indices)]
SampleResult(seq, indices) ==
    [x \in DOMAIN indices |-> seq[Sorted(indices)[x] + 1]]

RandomWidthWide == RandomBits + 1

\* random: the width passed to getrandbits
RandomWidth == RandomBits

ResultBitsFromTail(bits, n) == SubSeq(bits, Len(bits) - n + 1, Len(bits))

\* getrandbits: result_bits = self.current_bits[:k]
ResultBits(bits, n) == Take(bits, n)

\* getrandbits: self.current_bits = self.current_bits[k:]
RestBits(bits, n) == Drop(bits, n)

----------------------------------------------------------------------------
(* The API calls: entry *)

\* self.randint(c.a, c.b) up to its first getrandbits.
EnterRandint(c) ==
    IF RandintRaises(c.a, c.b)
    THEN Raise(c, "AttributeError")
    ELSE Draw([c EXCEPT !.rejected = FALSE], RandintWidth(c.a, c.b))

Untouched == UNCHANGED <<storage, now, saved, current_bits, loaded,
                         decoded, delivered, producerVars, engines>>

\* getrandbits(n) called directly
CallGetrandbits(n) ==
    /\ pc = "idle"
    /\ Draw([Frame("getrandbits") EXCEPT !.kreq = n], n)
    /\ Untouched

\* randrange(start, stop, step) up to its first getrandbits
CallRandrange(start, stop, step) ==
    /\ pc = "idle"
    /\ LET c == [Frame("randrange") EXCEPT !.start = start, !.stop = stop,
                                          !.step = step]
       IN  IF step = 0
           THEN Raise(c, "ZeroDivisionError")
           ELSE LET range_size == RandrangeSize(start, stop, step)
                IN  Draw([c EXCEPT !.size = range_size],
                         RandrangeWidth(range_size))
    /\ Untouched

\* randrange(n): `if stop is None: start, stop = 0, start`
CallRandrangeStop(n) == CallRandrange(0, n, 1)

\* randint(a, b)
CallRandint(a, b) ==
    /\ pc = "idle"
    /\ EnterRandint([Frame("randint") EXCEPT !.a = a, !.b = b])
    /\ Untouched

\* choices(seq, n) as sample calls it: `[self.choice(seq) for _ in range(k)]`
\* up to the first getrandbits of choice's randint(0, len(seq) - 1);
\* `input` is the list sample indexes afterwards.
EnterChoices(seq, input, n) ==
    LET c == [Frame("sample") EXCEPT !.seq = seq, !.input = input, !.n = n,
                                     !.a = 0, !.b = Len(seq) - 1]
    IN  IF n <= 0 THEN Return(c, <<>>) ELSE EnterRandint(c)

\* sample(seq, n): self.choices(range(len(seq)), n), later sorted
CallSample(seq, n) ==
    /\ pc = "idle"
    /\ EnterChoices(RangeList(Len(seq)), seq, n)
    /\ Untouched

\* shuffle(seq): for i in reversed(range(1, len(seq)))
CallShuffle(seq) ==
    /\ pc = "idle"
    /\ LET c == [Frame("shuffle") EXCEPT !.seq = seq, !.input = seq,
                                        !.i = Len(seq) - 1,
                                        !.a = 0, !.b = Len(seq) - 1]
       IN  IF Len(seq) <= 1 THEN Return(c, seq) ELSE EnterRandint(c)
    /\ Untouched

\* random(): self.getrandbits(53) / 9007199254740992
CallRandom ==
    /\ pc = "idle"
    /\ Draw(Frame("random"), RandomWidth)
    /\ Untouched

----------------------------------------------------------------------------
(* getrandbits once current_bits holds k bits, and what its caller does   *)
(* with the value                                                          *)

\* getrandbits after its while loop: cut k bits off the head.
TakeBits ==
    /\ pc = "draw"
    /\ Len(current_bits) >= k
    /\ current_bits' = RestBits(current_bits, k)
    /\ delivered' = delivered \o ResultBits(current_bits, k)
    /\ UNCHANGED <<storage, now, saved, loaded, decoded,
                   producerVars, engines>>

\* int(result_bits, 2), for the widths a machine integer holds.
rand_num == BitsToInt(ResultBits(current_bits, k))

\* The frame after getrandbits returned rand_num.
Drawn == [call EXCEPT !.draw = rand_num]

\* The frame after the loop rejected rand_num.
Rejected == [Drawn EXCEPT !.rejected = TRUE]

\* getrandbits with k = 0: result_bits is "" and int("", 2) raises
\* ValueError, in getrandbits(0) and in every caller that asks for 0 bits.
GetrandbitsEmpty ==
    /\ TakeBits
    /\ k = 0
    /\ Raise(call, "ValueError")

\* getrandbits(n) called directly returns the value.
GetrandbitsReturn ==
    /\ TakeBits
    /\ k > 0
    /\ call.name = "getrandbits"
    /\ Return(Drawn, <<rand_num>>)

\* random(): the 53-bit value over 2^53; the result is the numerator, an
\* unbounded integer kept as a numeral, the denominator being TwoTo53.
RandomReturn ==
    /\ TakeBits
    /\ k > 0
    /\ call.name = "random"
    /\ Return(call, Numeral(ResultBits(current_bits, k)))

\* randrange: one pass of `while True`
RandrangeDraw ==
    /\ TakeBits
    /\ k > 0
    /\ call.name = "randrange"
    /\ IF RandrangeAccept(rand_num, call.size)
       THEN Return(Drawn, <<RandrangeResult(call.start, rand_num, call.step)>>)
       ELSE Draw(Rejected, RandrangeWidth(call.size))

\* randint's `while True`, one pass that rejects rand_num, in any caller.
RandintReject ==
    /\ TakeBits
    /\ k > 0
    /\ call.name \in {"randint", "sample", "shuffle"}
    /\ ~RandintAccept(call.a, call.b, rand_num)
    /\ Draw(Rejected, RandintWidth(call.a, call.b))

\* A pass of randint's loop that accepts rand_num, for the caller `name`.
RandintAccepted(name) ==
    /\ TakeBits
    /\ k > 0
    /\ call.name = name
    /\ RandintAccept(call.a, call.b, rand_num)

\* randint(a, b) returns rand_num.
RandintReturn ==
    /\ RandintAccepted("randint")
    /\ Return(Drawn, <<rand_num>>)

\* sample: one element of the comprehension of choices, which is
\* choice(seq) = seq[rand_num]; after the last one sample sorts the indices
\* choices returned and indexes its own list with them.
SampleDraw ==
    /\ RandintAccepted("sample")
    /\ LET c == [Drawn EXCEPT !.acc = Append(@, call.seq[rand_num + 1])]
       IN  IF Len(c.acc) < c.n
           THEN EnterRandint(c)
           ELSE Return(c, SampleResult(c.input, c.acc))

\* shuffle: j = self.randint(0, i), the swap, and the next i.
ShuffleDraw ==
    /\ RandintAccepted("shuffle")
    /\ LET c == [Drawn EXCEPT !.seq = Swap(@, call.i, rand_num),
                              !.swaps = Append(@, <<call.i, rand_num>>)]
       IN  IF call.i - 1 >= 1
           THEN EnterRandint([c EXCEPT !.i = call.i - 1, !.b = call.i - 1])
           ELSE Return(c, c.seq)

----------------------------------------------------------------------------

Next ==
    \/ Tick
    \/ \E hotbits \in IntegerLists : SaveToFile(hotbits)
    \/ Construct
    \/ \E n \in BitCounts : CallGetrandbits(n)
    \/ \E args \in RandrangeArgs : CallRandrange(args[1], args[2], args[3])
    \/ \E n \in RandrangeStops : CallRandrangeStop(n)
    \/ \E args \in RandintArgs : CallRandint(args[1], args[2])
    \/ \E seq \in Lists, n \in Counts : CallSample(seq, n)
    \/ \E seq \in Lists : CallShuffle(seq)
    \/ CallRandom
    \/ GetrandbitsLoad
    \/ GetrandbitsExhausted
    \/ GetrandbitsEmpty
    \/ GetrandbitsReturn
    \/ RandomReturn
    \/ RandrangeDraw
    \/ RandintReject
    \/ RandintReturn
    \/ SampleDraw
    \/ ShuffleDraw

Spec == Init /\ [][Next]_vars

----------------------------------------------------------------------------
(* Properties *)

NoDuplicates(s) == \A i, j \in DOMAIN s : s[i] = s[j] => i = j

\* The ids of the sets resident in the directory.
ResidentIds == {storage[f].id : f \in Files}

\* The value of a bit string read most significant bit first.
RECURSIVE MsbValue(_)
MsbValue(bits) ==
    IF bits = <<>> THEN 0
    ELSE Head(bits) * Pow2(Len(bits) - 1) + MsbValue(Tail(bits))

\* The last n bits getrandbits delivered.
LastDelivered(n) == SubSeq(delivered, Len(delivered) - n + 1, Len(delivered))

\* The call that finished last is `name`, and the engine is idle.
Finished(name) == pc = "idle" /\ last.call.name = name

Returned(name) == Finished(name) /\ last.err = "none"

\* The 48 bits of the set [5, 10].
FiveTen == Zeros(21) \o <<1, 0, 1>> \o Zeros(20) \o <<1, 0, 1, 0>>

\* C1: with one consumer no set is decoded more than once: the ids of the
\* sets decoded are pairwise different, a decoded set is not resident any
\* more (so no later load can pick it), and every set saved is resident,
\* decoded or overwritten; when every resident set has been decoded a
\* refill can only fail.
C1_DecodedOnce ==
    /\ NoDuplicates(loaded)
    /\ ResidentIds \cap RangeOf(loaded) = {}
    /\ Cardinality(Files) + Len(loaded) <= saved
    /\ (pc = "draw" /\ Len(current_bits) < k /\ ResidentIds = {})
          => (ENABLED GetrandbitsExhausted /\ ~ENABLED GetrandbitsLoad)

\* The only set ever saved was decoded and the next refill failed.
C1_Witness ==
    /\ saved = 1
    /\ loaded = <<1>>
    /\ Finished("getrandbits")
    /\ last.err = "PoolExhausted"

\* C2: getrandbits(k), k >= 1, returns the first k bits of current_bits read
\* most significant bit first, a value in 0 .. 2^k - 1, and removes exactly
\* those bits: the bits decoded are the bits delivered followed by the bits
\* still in the pool.  With the single set [5, 10]: getrandbits(24) gives 5
\* after 24 bits and 10 after 48, and a getrandbits(1) begun after 48 bits
\* can only fail.
C2_ExtractHead ==
    /\ decoded = delivered \o current_bits
    /\ Returned("getrandbits") =>
          /\ last.call.kreq >= 1
          /\ Len(delivered) >= last.call.kreq
          /\ last.result = <<MsbValue(LastDelivered(last.call.kreq))>>
          /\ 0 <= last.result[1]
          /\ last.result[1] <= Pow2(last.call.kreq) - 1
    /\ (saved = 1 /\ decoded = FiveTen /\ Finished("getrandbits")) =>
          /\ (last.call.kreq = ChunkSize /\ Len(delivered) = 24
                 /\ last.err = "none") => last.result = <<5>>
          /\ (last.call.kreq = ChunkSize /\ Len(delivered) = 48
                 /\ last.err = "none") => last.result = <<10>>
    /\ (saved = 1 /\ decoded = FiveTen /\ Len(delivered) = 48
           /\ pc = "draw" /\ call.name = "getrandbits" /\ k = 1) =>
          /\ ENABLED GetrandbitsExhausted
          /\ ~ENABLED GetrandbitsLoad
          /\ ~ENABLED GetrandbitsReturn

\* The third call of the scenario has failed.
C2_Witness ==
    /\ saved = 1
    /\ decoded = FiveTen
    /\ Len(delivered) = 48
    /\ Finished("getrandbits")
    /\ last.call.kreq = 1
    /\ last.err = "PoolExhausted"

\* C3: getrandbits(0) returns 0 and loads nothing.
C3_ExtractZero ==
    (Finished("getrandbits") /\ last.call.kreq = 0)
       => /\ last.err = "none"
          /\ last.result = <<0>>
          /\ ~last.call.loaded

\* The engine, not the producer or the clock, took the step.
EngineStep == <<pc, call, k, last, current_bits>>' # <<pc, call, k, last, current_bits>>

\* C4: when getrandbits needs more bits than current_bits holds and the
\* directory is empty as the refill is attempted, the engine's step is the
\* failure: the call ends with PoolExhausted, no bit leaves current_bits
\* (the bits of sets loaded earlier in the call included) and nothing is
\* delivered.
C4_Exhausted ==
    [][(pc = "draw" /\ Len(current_bits) < k /\ Files = {} /\ EngineStep)
          => /\ pc' = "idle"
             /\ last'.err = "PoolExhausted"
             /\ last'.call = call
             /\ current_bits' = current_bits
             /\ delivered' = delivered
             /\ storage' = storage]_vars

\* random() failed after loading a set in the same call, whose bits are
\* still in the pool.
C4_Witness ==
    /\ Finished("random")
    /\ last.err = "PoolExhausted"
    /\ last.call.loaded
    /\ Len(current_bits) >= ChunkSize

\* C5: randint(a, a) returns a: while the call draws, a is one of the values
\* a draw of the width in use can take, so the loop can accept it.
C5_RandintSame ==
    (pc = "draw" /\ call.name = "randint" /\ call.a = call.b)
       => (0 <= call.a /\ call.a <= Pow2(k) - 1)

\* C6: randint(a, b) draws w bits on every attempt, w being the bit length
\* of 2^(bitlen(b-a+1)-1) (4 for randint(0, 7)); a draw it rejected lies
\* outside [a, b]; the value it returns is the draw delivered last and lies
\* in [a, b].
C6_Randint ==
    /\ (pc = "draw" /\ call.name = "randint") =>
          /\ k = BitLength(Pow2(BitLength(call.b - call.a + 1) - 1))
          /\ (call.a = 0 /\ call.b = 7) => k = 4
          /\ call.rejected =>
                /\ call.draw = MsbValue(LastDelivered(k))
                /\ ~(call.a <= call.draw /\ call.draw <= call.b)
    /\ Returned("randint") =>
          LET w == BitLength(Pow2(BitLength(last.call.b - last.call.a + 1) - 1))
          IN  /\ last.result = <<MsbValue(LastDelivered(w))>>
              /\ last.call.a <= last.result[1]
              /\ last.result[1] <= last.call.b

\* randint(0, 7) returned after rejecting a draw.
C6_Witness ==
    /\ Returned("randint")
    /\ last.call.a = 0
    /\ last.call.b = 7
    /\ last.call.rejected

\* range_size is the floor of (stop - start) / step.
IsFloorQuotient(size, start, stop, step) ==
    IF step > 0
    THEN size * step <= stop - start /\ stop - start < (size + 1) * step
    ELSE size * step >= stop - start /\ stop - start > (size + 1) * step

\* C7: randrange(start, stop, step) has range_size = (stop-start)//step,
\* draws bitlen(range_size - 1) bits on every attempt, a draw it rejected is
\* >= range_size, and the value it returns is start + draw * step for the
\* draw delivered last, which is in [0, range_size); so for step > 0 the
\* value lies in [start, stop).
C7_Randrange ==
    /\ (pc = "draw" /\ call.name = "randrange") =>
          /\ IsFloorQuotient(call.size, call.start, call.stop, call.step)
          /\ k = BitLength(call.size - 1)
          /\ call.rejected =>
                /\ call.draw = MsbValue(LastDelivered(k))
                /\ call.draw >= call.size
    /\ Returned("randrange") =>
          LET c == last.call
              d == MsbValue(LastDelivered(BitLength(c.size - 1)))
          IN  /\ IsFloorQuotient(c.size, c.start, c.stop, c.step)
              /\ 0 <= d /\ d < c.size
              /\ last.result = <<c.start + d * c.step>>
              /\ c.step > 0 =>
                    (c.start <= last.result[1] /\ last.result[1] < c.stop)

\* randrange(1, 100, 5) returned after rejecting a draw.
C7_Witness ==
    /\ Returned("randrange")
    /\ last.call.start = 1
    /\ last.call.stop = 100
    /\ last.call.step = 5
    /\ last.call.rejected

\* How often x occurs in s.
Count(s, x) == Cardinality({i \in DOMAIN s : s[i] = x})

IsPermutation(s, t) ==
    /\ Len(s) = Len(t)
    /\ \A x \in RangeOf(s) \cup RangeOf(t) : Count(s, x) = Count(t, x)

\* The swaps shuffle has made are one per i, from len - 1 downwards, each
\* with a j drawn by randint(0, i).
SwapsInOrder(c) ==
    \A x \in DOMAIN c.swaps :
        /\ c.swaps[x][1] = Len(c.input) - x
        /\ 0 <= c.swaps[x][2]
        /\ c.swaps[x][2] <= c.swaps[x][1]

\* C8: shuffle keeps the list a permutation of its input after every swap,
\* at its end and when it is aborted by PoolExhausted; it draws
\* randint(0, i) and swaps once for each i from len - 1 down to 1.
C8_Shuffle ==
    /\ (pc = "draw" /\ call.name = "shuffle") =>
          /\ IsPermutation(call.seq, call.input)
          /\ SwapsInOrder(call)
          /\ call.i >= 1
          /\ Len(call.swaps) = Len(call.input) - 1 - call.i
          /\ call.a = 0 /\ call.b = call.i
    /\ Finished("shuffle") =>
          /\ IsPermutation(last.call.seq, last.call.input)
          /\ SwapsInOrder(last.call)
          /\ last.err = "none" =>
                /\ last.result = last.call.seq
                /\ Len(last.call.swaps) =
                      IF Len(last.call.input) = 0 THEN 0
                      ELSE Len(last.call.input) - 1

\* A shuffle of three elements ended with the list reordered.
C8_Witness ==
    /\ Returned("shuffle")
    /\ Len(last.call.swaps) = 2
    /\ last.result # last.call.input

\* C9: sample(seq, k) returns k elements taken from pairwise distinct
\* positions of seq.
C9_SampleDistinct ==
    Returned("sample") =>
       /\ Len(last.result) = last.call.n
       /\ NoDuplicates(last.call.acc)

\* C10: random() takes exactly 53 bits off current_bits in its one
\* getrandbits call and returns that 53-bit value over 2^53: the numerator
\* is at most 2^53 - 1, so the result is in [0, 1).
C10_Random ==
    [][(pc = "draw" /\ call.name = "random") =>
          IF pc' = "idle" /\ last'.err = "none"
          THEN /\ Len(delivered') = Len(delivered) + 53
               /\ Len(current_bits') = Len(current_bits) - 53
               /\ decoded' = decoded
               /\ last'.result = Numeral(SubSeq(current_bits, 1, 53))
               /\ NumeralLess(last'.result, TwoTo53)
          ELSE delivered' = delivered]_vars

\* random() returned a value other than 0.
C10_Witness ==
    /\ Returned("random")
    /\ last.result # <<>>

\* C13: every save_to_file stores the new set under a name no resident set
\* has, so it overwrites nothing and the number of resident sets is the
\* number of sets saved minus the number of sets taken, also when two saves
\* fall in the same clock second.
C13_FreshName == CountSets = saved - Len(loaded)

\* The values start, start + step, ... below stop.
RangeValues(start, stop, step) ==
    {v \in start .. (stop - 1) : (v - start) % step = 0}

\* C19: in randrange(start, stop, step) with step > 0 and start < stop,
\* range_size is the number of values start, start + step, ... below stop
\* (so the draws accepted reach every one of them).
C19_RangeSize ==
    (pc = "draw" /\ call.name = "randrange" /\ call.step > 0
        /\ call.start < call.stop)
       => call.size =
             Cardinality(RangeValues(call.start, call.stop, call.step))

----------------------------------------------------------------------------
(* The producer's codec: PixelProcessor.get_hotbits *)

\* get_hotbits(chunk_size=24)
chunk_size == 24

\* Most 24-bit chunks in a bit string handed to get_hotbits.
MaxChunks == 3

\* `if integer != 0: integers.append(integer)` with the test dropped
AppendedAlways(integer) == TRUE

\* `if integer != 0: integers.append(integer)`
Appended(integer) == integer /= 0

\* get_hotbits: the list `integers` it returns for self.bits = b. The loop
\* takes the chunks b[:24], b[24:48], .. while a complete one is left.
get_hotbits(b) ==
    LET chunks == [i \in 1 .. (Len(b) \div chunk_size) |->
                      BitsToInt(SubSeq(b, chunk_size * (i - 1) + 1,
                                       chunk_size * i))]
    IN  SelectSeq(chunks, Appended)

\* get_hotbits: what its loop leaves in self.bits
BitsLeft(b) == Drop(b, chunk_size * (Len(b) \div chunk_size))

\* Chunks a camera can deliver: all zero, one, a mixed pattern, all ones.
ChunkValues == {0, 1, 13804995, Pow2(chunk_size) - 1}

\* Partial chunks at the end of the buffer: none, one bit, chunk_size - 1 bits.
Tails == {<<>>, <<1>>, Drop(Format024b(13804995), 1)}

RECURSIVE ChunkStrings(_)
ChunkStrings(n) ==
    IF n = 0 THEN {<<>>}
    ELSE {Format024b(v) \o s : v \in ChunkValues, s \in ChunkStrings(n - 1)}

\* Bit strings of at most MaxChunks complete chunks and a partial one.
BitStrings ==
    {s \o t : s \in UNION {ChunkStrings(n) : n \in 0 .. MaxChunks},
              t \in Tails}

\* A processor holding some bit string, and an engine with an empty pool.
CodecInit ==
    /\ storage = << >>
    /\ now = 0
    /\ saved = 0
    /\ current_bits = <<>>
    /\ pc = "idle"
    /\ call = NoCall
    /\ k = 0
    /\ last = NoLast
    /\ loaded = <<>>
    /\ decoded = <<>>
    /\ delivered = <<>>
    /\ pixel_bits \in BitStrings
    /\ last_frame = "frame"
    /\ cut = <<>>
    /\ raw = <<>>
    /\ ppc = "encode"
    /\ max_sets = 0
    /\ filename = <<>>
    /\ engines = <<>>

\* hotbits = processor.get_hotbits()
Encode ==
    /\ ppc = "encode"
    /\ raw' = pixel_bits
    /\ cut' = get_hotbits(pixel_bits)
    /\ pixel_bits' = BitsLeft(pixel_bits)
    /\ ppc' = "decode"
    /\ UNCHANGED <<storage, now, saved, current_bits, pc, call, k, last,
                   loaded, decoded, delivered, last_frame, max_sets,
                   filename, engines>>

\* load_next_file's loop over the stored list: current_bits += format(..)
DecodeCut ==
    /\ ppc = "decode"
    /\ current_bits' = current_bits \o Decode(cut)
    /\ ppc' = "decoded"
    /\ UNCHANGED <<storage, now, saved, pc, call, k, last, loaded, decoded,
                   delivered, pixel_bits, last_frame, cut, raw, max_sets,
                   filename, engines>>

CodecNext == Encode \/ DecodeCut

SpecCodec == CodecInit /\ [][CodecNext]_vars

\* The i-th complete chunk of the bit string get_hotbits was given.
ChunkOf(i) == SubSeq(raw, chunk_size * (i - 1) + 1, chunk_size * i)

\* Indices of the complete chunks with a one bit somewhere.
NonZeroChunks ==
    {i \in 1 .. (Len(raw) \div chunk_size) :
        \E j \in 1 .. chunk_size : ChunkOf(i)[j] = 1}

\* Position of chunk i among the surviving chunks nz.
Rank(nz, i) == Cardinality({j \in nz : j <= i})

\* C14: get_hotbits returns, in order, exactly the values of the nonzero
\* complete 24-bit chunks, each in 1 .. 2^24 - 1, and decoding that list
\* gives the input without its all-zero chunks and its partial tail.
C14_Codec ==
    LET nz == NonZeroChunks
    IN  /\ ppc \in {"decode", "decoded"} =>
              /\ Len(cut) = Cardinality(nz)
              /\ \A i \in nz : cut[Rank(nz, i)] = BitsToInt(ChunkOf(i))
              /\ \A p \in 1 .. Len(cut) :
                    cut[p] \in 1 .. (Pow2(chunk_size) - 1)
        /\ ppc = "decoded" =>
              /\ Len(current_bits) = chunk_size * Cardinality(nz)
              /\ \A i \in nz :
                    SubSeq(current_bits, chunk_size * (Rank(nz, i) - 1) + 1,
                           chunk_size * Rank(nz, i)) = ChunkOf(i)

\* Decoded: two different surviving chunks, a zero chunk before the last
\* survivor, and a partial tail.
C14_Witness ==
    /\ ppc = "decoded"
    /\ Len(raw) % chunk_size /= 0
    /\ \E i, j \in NonZeroChunks : i < j /\ ChunkOf(i) /= ChunkOf(j)
    /\ \E i \in 1 .. (Len(raw) \div chunk_size) :
          /\ i \notin NonZeroChunks
          /\ \E j \in NonZeroChunks : i < j

----------------------------------------------------------------------------
(* The producer: capture_hotbits.main with a consumer on the directory *)

\* `if len(processor.bits) >= 24 * 100`
HotbitsThreshold == 2400

\* args.max_sets
Capacities == {1, 2}

\* current_frame.shape: a small camera, so that one frame is not yet a set.
Rows == 30
Cols == 67
Channels == 3

\* num_samples = int(rows * cols * self.sampling_ratio), sampling_ratio 0.2
num_samples == (Rows * Cols) \div 5

\* The least significant bits one frame adds: str(bit) per sample and channel.
FrameBits == num_samples * Channels

\* The pattern p repeated to n bits.
CyclePattern(p, n) == [i \in 1 .. n |-> p[((i - 1) % Len(p)) + 1]]

\* What a frame's sampled bits can be: all zero (a dark frame), or mixed.
Frames == {CyclePattern(Format024b(v), FrameBits) : v \in {0, 13804995}}

\* `while storage.count_sets() >= args.max_sets`, with the test dropped
AtCapacityNever(n) == FALSE

\* `while storage.count_sets() >= args.max_sets`
AtCapacity(n) == n >= max_sets

\* `if len(processor.bits) >= 24 * 100`, with the test dropped
EnoughBitsAlways(b) == TRUE

\* `if len(processor.bits) >= 24 * 100`
EnoughBits(b) == Len(b) >= HotbitsThreshold

engineVars == <<current_bits, pc, call, k, last, loaded, decoded, delivered>>

\* main() up to its loop, the directory empty, no engine constructed yet.
ProducerInit ==
    /\ storage = <<>>
    /\ now = 0
    /\ saved = 0
    /\ current_bits = <<>>
    /\ pc = "new"
    /\ call = NoCall
    /\ k = 0
    /\ last = NoLast
    /\ loaded = <<>>
    /\ decoded = <<>>
    /\ delivered = <<>>
    /\ pixel_bits = <<>>
    /\ last_frame = "None"
    /\ cut = <<>>
    /\ raw = <<>>
    /\ ppc = "poll"
    /\ max_sets \in Capacities
    /\ filename = <<>>
    /\ engines = <<>>

\* One test of `while storage.count_sets() >= args.max_sets`: into
\* time.sleep(10) when at capacity, on to the capture otherwise.
Poll ==
    /\ ppc = "poll"
    /\ ppc' = IF AtCapacity(CountSets) THEN "sleep" ELSE "capture"
    /\ UNCHANGED <<storage, now, saved, engineVars, pixel_bits, last_frame,
                   cut, raw, max_sets, filename, engines>>

\* time.sleep(10) returns: back to the test.
Wake ==
    /\ ppc = "sleep"
    /\ ppc' = "poll"
    /\ UNCHANGED <<storage, now, saved, engineVars, pixel_bits, last_frame,
                   cut, raw, max_sets, filename, engines>>

\* webcam.capture_frame() and processor.process_pixels(current_frame): the
\* first frame is only kept; later ones add their sampled bits.
Capture(frame) ==
    /\ ppc = "capture"
    /\ saved < MaxSaves
    /\ IF last_frame = "None"
       THEN pixel_bits' = pixel_bits
       ELSE pixel_bits' = pixel_bits \o frame
    /\ last_frame' = "frame"
    /\ ppc' = "cut"
    /\ UNCHANGED <<storage, now, saved, engineVars, cut, raw, max_sets,
                   filename, engines>>

\* capture_frame raises WebcamError: `except WebcamError ... break`.
CaptureFails ==
    /\ ppc = "capture"
    /\ ppc' = "exit"
    /\ UNCHANGED <<storage, now, saved, engineVars, pixel_bits, last_frame,
                   cut, raw, max_sets, filename, engines>>

\* `if len(processor.bits) >= 24 * 100: hotbits = processor.get_hotbits();
\* storage.save_to_file(hotbits)`, then time.sleep(args.interval).
Cut ==
    /\ ppc = "cut"
    /\ IF EnoughBits(pixel_bits)
       THEN /\ raw' = pixel_bits
            /\ cut' = get_hotbits(pixel_bits)
            /\ pixel_bits' = BitsLeft(pixel_bits)
            /\ saved' = saved + 1
            /\ storage' = Write(storage, FileName(now),
                                [id |-> saved + 1,
                                 ints |-> get_hotbits(pixel_bits),
                                 form |-> "ok"])
       ELSE UNCHANGED <<raw, cut, pixel_bits, saved, storage>>
    /\ ppc' = "poll"
    /\ UNCHANGED <<now, engineVars, last_frame, max_sets, filename, engines>>

\* A direct load_next_file() on the engine: take_random.
LoadNextFile ==
    /\ pc = "idle"
    /\ IF Files = {}
       THEN /\ last' = [call |-> Frame("load_next_file"),
                        err |-> "PoolExhausted", result |-> <<>>]
            /\ UNCHANGED <<storage, current_bits, loaded, decoded>>
       ELSE /\ \E name \in Files : LoadFile(name)
            /\ last' = [call |-> [Frame("load_next_file")
                                     EXCEPT !.loaded = TRUE],
                        err |-> "none", result |-> <<>>]
    /\ UNCHANGED <<now, saved, pc, call, k, delivered, producerVars, engines>>

ProducerNext ==
    \/ Tick
    \/ Poll
    \/ Wake
    \/ \E frame \in Frames : Capture(frame)
    \/ CaptureFails
    \/ Cut
    \/ Construct
    \/ LoadNextFile

SpecProducer == ProducerInit /\ [][ProducerNext]_vars

\* The producer's last cut took every complete chunk of its buffer.
CutFromAllChunks ==
    LET nz == NonZeroChunks
    IN  /\ Len(cut) = Cardinality(nz)
        /\ \A i \in nz : cut[Rank(nz, i)] = BitsToInt(ChunkOf(i))

\* C11: one producer with capacity max_sets, interleaved with one consumer:
\* past its capacity test the producer has seen fewer than max_sets resident
\* sets, and the directory never holds more than max_sets sets.
C11_Capacity ==
    /\ CountSets <= max_sets
    /\ ppc \in {"capture", "cut"} => CountSets < max_sets

\* The producer asleep at capacity after the consumer took a set.
C11_Witness ==
    /\ ppc = "sleep"
    /\ CountSets = max_sets
    /\ loaded /= <<>>

\* C12: with capacity 2 and no take_random yet, two enqueues leave two
\* resident sets and the producer makes no third one.
C12_TwoThenSuspend ==
    (max_sets = 2 /\ saved >= 2 /\ loaded = <<>>)
       => (CountSets = 2 /\ saved = 2)

\* C16: a step that enqueues a set starts from at least 2400 buffered bits,
\* stores the values of all complete 24-bit chunks of that buffer (C14 says
\* which), and leaves fewer than 24 bits in the buffer.
C16_Cut ==
    /\ []CutFromAllChunks
    /\ [][saved' /= saved =>
             /\ Len(pixel_bits) >= HotbitsThreshold
             /\ raw' = pixel_bits
             /\ storage'[FileName(now)].ints = cut'
             /\ Len(pixel_bits') < chunk_size
             /\ pixel_bits' = SubSeq(pixel_bits,
                                     Len(pixel_bits) - Len(pixel_bits') + 1,
                                     Len(pixel_bits))]_vars

\* A set was cut from a buffer that ended in a partial chunk, and a zero
\* chunk was dropped from it.
C16_Witness ==
    /\ saved > 0
    /\ ppc = "poll"
    /\ Len(raw) >= HotbitsThreshold
    /\ Len(raw) % chunk_size /= 0
    /\ pixel_bits /= <<>>
    /\ 0 < Len(cut)
    /\ Len(cut) < Len(raw) \div chunk_size

----------------------------------------------------------------------------
(* load_next_file and save_to_file step by step on a shared directory *)

\* Most API calls one engine makes, its construction included.
MaxCalls == 2

\* Names of the files found in the directory at the start.
InitialNames == {-1, -2}

\* What a .json file found under name n can hold: a set, text that is no
\* JSON, JSON without "integerList", or a list [5, "x"].
FileContents(n) ==
    {[id |-> n, ints |-> IF n = -1 THEN <<5, 10>> ELSE <<13804995>>,
      form |-> "ok"],
     [id |-> n, ints |-> <<>>, form |-> "garbage"],
     [id |-> n, ints |-> <<>>, form |-> "noField"],
     [id |-> n, ints |-> <<5>>, form |-> "badEntry"]}

Directories ==
    UNION {{d \in [names -> UNION {FileContents(n) : n \in names}] :
               \A n \in names : d[n] \in FileContents(n)} :
           names \in SUBSET InitialNames}

\* Arguments of getrandbits: one set's worth, and more than any one set.
Requests == {ChunkSize, 3 * ChunkSize}

\* What json.load(file)["integerList"] and format(integer, '024b') raise.
ErrorOf(form) ==
    CASE form = "empty"    -> "JSONDecodeError"
      [] form = "garbage"  -> "JSONDecodeError"
      [] form = "noField"  -> "KeyError"
      [] form = "badEntry" -> "FormatError"

DecodeErrors == {"JSONDecodeError", "KeyError", "FormatError"}

\* A QuantumRandom not yet constructed.
NewEngine ==
    [pc           |-> "new",
     caller       |-> "none",        \* the API call load_next_file runs in
     k            |-> 0,
     files        |-> {},            \* load_next_file's local `files`
     current_file |-> <<>>,
     current_bits |-> <<>>,
     pool0        |-> <<>>,          \* history: the pool when the load began
     err          |-> "none",
     at           |-> "none",        \* the step the error was raised in
     loaded       |-> <<>>,          \* history: ids of the sets read
     result       |-> <<>>,
     calls        |-> 0]

\* The exception leaves load_next_file and its caller.
Fail(eng, err, at) ==
    [eng EXCEPT !.err = err, !.at = at,
                !.pc = IF eng.caller = "__init__" THEN "new" ELSE "idle"]

\* `self.current_bits += format(integer, '024b')`, the += lost
ExtendNot(pool, bits) == pool

\* `self.current_bits += format(integer, '024b')` over the list
Extend(pool, bits) == pool \o bits

\* A malformed file is passed over and the load starts again.
OnMalformedSkip(eng, file) == [eng EXCEPT !.pc = "list"]

\* json.load, ["integerList"] or format raises inside the `with` block:
\* the entries before the bad one are already in the pool.
OnMalformed(eng, file) ==
    Fail([eng EXCEPT !.current_bits = Extend(@, Decode(file.ints))],
         ErrorOf(file.form), "read")

\* The while test of getrandbits, and its return.
AfterLoad(eng) ==
    IF eng.caller = "getrandbits"
    THEN IF Len(eng.current_bits) < eng.k
         THEN [eng EXCEPT !.pc = "list"]
         ELSE [eng EXCEPT !.pc = "idle",
                          !.result = ResultBits(eng.current_bits, eng.k),
                          !.current_bits = RestBits(eng.current_bits, eng.k)]
    ELSE [eng EXCEPT !.pc = "idle"]

\* What an engine step leaves alone besides the directory.
EngineFrame ==
    UNCHANGED <<now, saved, engineVars, producerVars>>

\* QuantumRandom(): current_bits = "" and into load_next_file.
New(e) ==
    /\ e \in DOMAIN engines
    /\ engines[e].pc = "new"
    /\ engines[e].calls < MaxCalls
    /\ engines' = [engines EXCEPT ![e] =
          [@ EXCEPT !.pc = "list", !.caller = "__init__", !.k = 0,
                    !.current_bits = <<>>, !.err = "none", !.at = "none",
                    !.result = <<>>, !.calls = @ + 1]]
    /\ UNCHANGED storage
    /\ EngineFrame

\* getrandbits(n) up to its first while test.
Extract(e, n) ==
    /\ e \in DOMAIN engines
    /\ engines[e].pc = "idle"
    /\ engines[e].calls < MaxCalls
    /\ engines' = [engines EXCEPT ![e] =
          AfterLoad([@ EXCEPT !.caller = "getrandbits", !.k = n,
                              !.err = "none", !.at = "none",
                              !.result = <<>>, !.calls = @ + 1])]
    /\ UNCHANGED storage
    /\ EngineFrame

\* files = [f for f in os.listdir(..) if f.endswith('.json')]
ListFiles(e) ==
    /\ e \in DOMAIN engines
    /\ engines[e].pc = "list"
    /\ LET eng == [engines[e] EXCEPT !.files = Files,
                                     !.pool0 = engines[e].current_bits]
       IN  engines' = [engines EXCEPT ![e] =
              IF Files = {}
              THEN Fail(eng, "PoolExhausted", "list")
              ELSE [eng EXCEPT !.pc = "choose"]]
    /\ UNCHANGED storage
    /\ EngineFrame

\* self.current_file = .. python_random.choice(files)
ChooseFile(e, f) ==
    /\ e \in DOMAIN engines
    /\ engines[e].pc = "choose"
    /\ f \in engines[e].files
    /\ engines' = [engines EXCEPT ![e] =
          [@ EXCEPT !.current_file = <<f>>, !.pc = "read"]]
    /\ UNCHANGED storage
    /\ EngineFrame

\* The `with open(self.current_file, 'r')` block.
ReadFile(e) ==
    /\ e \in DOMAIN engines
    /\ engines[e].pc = "read"
    /\ LET eng == engines[e]
           f   == eng.current_file[1]
       IN  engines' = [engines EXCEPT ![e] =
              IF f \notin Files
              THEN Fail(eng, "FileNotFoundError", "open")
              ELSE IF storage[f].form = "ok"
              THEN [eng EXCEPT
                       !.current_bits = Extend(@, Decode(storage[f].ints)),
                       !.loaded = Append(@, storage[f].id),
                       !.pc = "remove"]
              ELSE OnMalformed(eng, storage[f])]
    /\ UNCHANGED storage
    /\ EngineFrame

\* os.remove(self.current_file), and back to the caller.
RemoveFile(e) ==
    /\ e \in DOMAIN engines
    /\ engines[e].pc = "remove"
    /\ LET eng == engines[e]
           f   == eng.current_file[1]
       IN  IF f \in Files
           THEN /\ storage' = Remove(storage, f)
                /\ engines' = [engines EXCEPT ![e] = AfterLoad(eng)]
           ELSE /\ storage' = storage
                /\ engines' = [engines EXCEPT ![e] =
                      Fail(eng, "FileNotFoundError", "remove")]
    /\ EngineFrame

\* save_to_file up to `open(filename, 'w')`: the file exists and is empty.
OpenFile(hotbits) ==
    /\ ppc = "save"
    /\ saved < MaxSaves
    /\ filename' = <<FileName(now)>>
    /\ cut' = hotbits
    /\ saved' = saved + 1
    /\ storage' = Write(storage, FileName(now),
                        [id |-> saved + 1, ints |-> <<>>, form |-> "empty"])
    /\ ppc' = "dump"
    /\ UNCHANGED <<now, engineVars, pixel_bits, last_frame, raw, max_sets,
                   engines>>

\* json.dump and the end of the `with` block: the text reaches the file.
Dump ==
    /\ ppc = "dump"
    /\ storage' = Write(storage, filename[1],
                        [id |-> saved, ints |-> cut, form |-> "ok"])
    /\ filename' = <<>>
    /\ ppc' = "save"
    /\ UNCHANGED <<now, saved, engineVars, pixel_bits, last_frame, cut, raw,
                   max_sets, engines>>

\* The engines there can be, and the names a file can have.
EngineIds == {1, 2}
FileNames == InitialNames \cup {FileName(t) : t \in 0 .. MaxTime}

EngineNext ==
    \E e \in EngineIds :
        \/ New(e)
        \/ \E n \in Requests : Extract(e, n)
        \/ ListFiles(e)
        \/ \E f \in FileNames : ChooseFile(e, f)
        \/ ReadFile(e)
        \/ RemoveFile(e)

\* One engine, a producer saving into the directory, and whatever files
\* the directory held at the start.
FilesInit ==
    /\ storage \in Directories
    /\ now = 0
    /\ saved = 0
    /\ current_bits = <<>>
    /\ pc = "new"
    /\ call = NoCall
    /\ k = 0
    /\ last = NoLast
    /\ loaded = <<>>
    /\ decoded = <<>>
    /\ delivered = <<>>
    /\ pixel_bits = <<>>
    /\ last_frame = "None"
    /\ cut = <<>>
    /\ raw = <<>>
    /\ ppc = "save"
    /\ max_sets = 0
    /\ filename = <<>>
    /\ engines = [e \in {1} |-> NewEngine]

FilesNext ==
    \/ Tick
    \/ EngineNext
    \/ \E hotbits \in IntegerLists : OpenFile(hotbits)
    \/ Dump

SpecFiles == FilesInit /\ [][FilesNext]_vars

\* Two engines on a directory of well-formed sets, no producer.
RaceInit ==
    /\ storage \in {d \in Directories :
                       d /= <<>> /\ \A n \in DOMAIN d : d[n].form = "ok"}
    /\ now = 0
    /\ saved = 0
    /\ current_bits = <<>>
    /\ pc = "new"
    /\ call = NoCall
    /\ k = 0
    /\ last = NoLast
    /\ loaded = <<>>
    /\ decoded = <<>>
    /\ delivered = <<>>
    /\ pixel_bits = <<>>
    /\ last_frame = "None"
    /\ cut = <<>>
    /\ raw = <<>>
    /\ ppc = "off"
    /\ max_sets = 0
    /\ filename = <<>>
    /\ engines = [e \in {1, 2} |-> NewEngine]

SpecRace == RaceInit /\ [][EngineNext]_vars

\* C15: a load that has selected a resident file with malformed contents
\* ends in that file's decode error, which leaves load_next_file and the
\* API call around it: no set is read instead, nothing is returned, and the
\* directory is as before.
C15_Propagates ==
    [][\A e \in DOMAIN engines :
          (/\ engines[e].pc = "read"
           /\ engines'[e] /= engines[e]
           /\ engines[e].current_file[1] \in Files
           /\ storage[engines[e].current_file[1]].form /= "ok")
             => /\ engines'[e].err =
                      ErrorOf(storage[engines[e].current_file[1]].form)
                /\ engines'[e].at = "read"
                /\ engines'[e].pc \in {"idle", "new"}
                /\ engines'[e].loaded = engines[e].loaded
                /\ engines'[e].result = <<>>
                /\ storage' = storage]_vars

\* getrandbits failed on a malformed file while a well-formed set was
\* resident that it could have loaded instead.
C15_Witness ==
    \E e \in DOMAIN engines :
        /\ engines[e].caller = "getrandbits"
        /\ engines[e].pc = "idle"
        /\ engines[e].err \in DecodeErrors
        /\ engines[e].current_file[1] \in Files
        /\ \E f \in engines[e].files : f \in Files /\ storage[f].form = "ok"

\* Engine e read the set with this id most recently.
LastRead(e) == engines[e].loaded[Len(engines[e].loaded)]

\* The bits engine e appended in its last read are the tail of its pool.
PoolExtended(e, ints) ==
    /\ Len(engines[e].current_bits) >= Len(Decode(ints))
    /\ engines[e].current_bits = engines[e].pool0 \o Decode(ints)

\* C17: when an engine's os.remove fails because the file is gone, that
\* engine had already read the set into its pool, and another engine has
\* read the very same set: its bits went into two pools.
C17_Race ==
    \A e \in DOMAIN engines :
        (engines[e].err = "FileNotFoundError" /\ engines[e].at = "remove")
          => /\ engines[e].loaded /= <<>>
             /\ \E o \in DOMAIN engines \ {e} :
                   \E i \in DOMAIN engines[o].loaded :
                       engines[o].loaded[i] = LastRead(e)
             /\ \E n \in InitialNames : \E c \in FileContents(n) :
                   /\ c.form = "ok"
                   /\ c.id = LastRead(e)
                   /\ PoolExtended(e, c.ints)

\* Both engines read the same set before either deleted it; the second
\* delete has failed.
C17_Witness ==
    /\ DOMAIN engines = {1, 2}
    /\ engines[2].err = "FileNotFoundError"
    /\ engines[2].at = "remove"
    /\ engines[1].err = "none"
    /\ engines[1].loaded = engines[2].loaded
    /\ engines[1].current_bits = engines[2].current_bits
    /\ engines[2].current_bits /= <<>>

\* C18: an enqueue that has not completed is not observable: no engine has
\* selected and opened the file save_to_file is still writing.
C18_Atomic ==
    \A e \in DOMAIN engines :
        ~ (/\ filename /= <<>>
           /\ engines[e].current_file = filename
           /\ engines[e].err = "JSONDecodeError"
           /\ engines[e].at = "read")

\* C20: a load that failed while decoding left the pool as it found it.
C20_PoolKept ==
    \A e \in DOMAIN engines :
        (engines[e].err \in DecodeErrors /\ engines[e].at = "read")
           => engines[e].current_bits = engines[e].pool0

----------------------------------------------------------------------------
(* randint's accepted draws, and when sets leave the directory *)

\* The values a draw of `width` bits can take that randint(a, b) accepts.
RandintAcceptedDraws(a, b, width) ==
    {r \in 0 .. (Pow2(width) - 1) : RandintAccept(a, b, r)}

\* C21: for 0 <= a <= b the draws randint(a, b) accepts, among those its
\* width can deliver, are exactly the values a .. b, so each of them is a
\* possible result.
C21_AcceptsRange ==
    (pc = "draw" /\ call.name = "randint" /\ 0 <= call.a /\ call.a <= call.b)
       => RandintAcceptedDraws(call.a, call.b, k) = call.a .. call.b

\* C22: constructing an engine succeeds, also on an empty directory, and
\* takes no set from it; sets leave the directory only in a getrandbits
\* that found the pool short.
C22_Lazy ==
    last.call.name = "__init__"
       => (last.err = "none" /\ ~last.call.loaded /\ loaded = <<>>)

====
